---- MODULE Spec2Model ----
(***************************************************************************)
(* Aadhaar card info extractor: the FastAPI service (fastapi_app.py) and   *)
(* the Streamlit client (streamlit_app.py).                                *)
(*                                                                         *)
(* A text is a sequence of characters.  A character is a one-element       *)
(* string; a character outside ASCII is written by its code point          *)
(* ("U092A" is DEVANAGARI LETTER PA).  The regular expressions of          *)
(* extract_aadhaar_info are translated operator by operator, with the      *)
(* priorities of Python's backtracking matcher (greedy, lazy, alternation  *)
(* order, leftmost match).                                                 *)
(***************************************************************************)
EXTENDS Integers, Sequences, FiniteSets, TLC

\* ------------------------------------------------------------------------
\* Characters and the character classes of Python's re on str patterns
\* ------------------------------------------------------------------------

AsciiUpper == <<"A", "B", "C", "D", "E", "F", "G", "H", "I", "J", "K", "L", "M",
                "N", "O", "P", "Q", "R", "S", "T", "U", "V", "W", "X", "Y", "Z">>

AsciiLower == <<"a", "b", "c", "d", "e", "f", "g", "h", "i", "j", "k", "l", "m",
                "n", "o", "p", "q", "r", "s", "t", "u", "v", "w", "x", "y", "z">>

Range(s) == {s[i] : i \in DOMAIN s}

UpperSet == Range(AsciiUpper)

LowerSet == Range(AsciiLower)

\* [0-9]
AsciiDigits == {"0", "1", "2", "3", "4", "5", "6", "7", "8", "9"}

\* [2-9]
LeadDigits == AsciiDigits \ {"0", "1"}

\* DEVANAGARI DIGIT ZERO, ONE, TWO, NINE: decimal digits (category Nd) that
\* \d matches on a str pattern and [0-9] does not.
DevDigits == {"U0966", "U0967", "U0968", "U096F"}

\* Devanagari letters (category Lo): word characters.
DevLetters == {"U0915", "U091C", "U0924", "U0928", "U092A", "U092E", "U0930",
               "U0932", "U0937", "U0939"}

\* The Devanagari vowel signs and the virama ("U093E", "U093F", "U0941", "U094D":
\* categories Mc, Mn) are not word characters.

\* DEVANAGARI DANDA (category Po).
Danda == "U0964"

\* \s
SpaceChars == {" ", "\t", "\n"}

IsSpace(c) == c \in SpaceChars

UnicodeDigits == AsciiDigits \cup DevDigits

\* \d
IsDigit(c) == c \in UnicodeDigits

IsAsciiDigit(c) == c \in AsciiDigits

IsLeadDigit(c) == c \in LeadDigits

WordChars == UpperSet \cup LowerSet \cup AsciiDigits \cup DevDigits \cup DevLetters
                 \cup {"_"}

\* \w
IsWordChar(c) == c \in WordChars

NameChars == UpperSet \cup LowerSet \cup SpaceChars

\* [A-Za-z\s] under re.IGNORECASE
IsNameChar(c) == c \in NameChars

LowerOf == [c \in UpperSet |-> AsciiLower[CHOOSE i \in DOMAIN AsciiUpper : AsciiUpper[i] = c]]

\* Case folding of re.IGNORECASE on the characters above.
Fold(c) == IF c \in UpperSet THEN LowerOf[c] ELSE c

\* A literal of the pattern found at position p of t, ignoring case.
LitAt(t, p, kw) == /\ p >= 1
                   /\ p + Len(kw) - 1 <= Len(t)
                   /\ \A i \in 1..Len(kw) : Fold(t[p + i - 1]) = Fold(kw[i])

WordAt(t, p) == p >= 1 /\ p <= Len(t) /\ IsWordChar(t[p])

\* \b between the characters p-1 and p.
Boundary(t, p) == WordAt(t, p - 1) # WordAt(t, p)

\* Characters p .. q-1 of t.
Slice(t, p, q) == [i \in 1..(q - p) |-> t[p + i - 1]]

\* The length of the run of whitespace that starts at p.
RECURSIVE SpaceRun(_, _)
SpaceRun(t, p) == IF p <= Len(t) /\ IsSpace(t[p]) THEN 1 + SpaceRun(t, p + 1) ELSE 0

Min(S) == CHOOSE x \in S : \A y \in S : x <= y

\* Python's None, and the truth value of None, "" and a non-empty str.
None == <<"None">>

Truthy(v) == v # None /\ v # <<>>

NoMatch == [found |-> FALSE, value |-> <<>>]

Found(v) == [found |-> TRUE, value |-> v]

\* ------------------------------------------------------------------------
\* The words of the patterns
\* ------------------------------------------------------------------------

kwName == <<"N", "a", "m", "e">>

kwNaam == <<"U0928", "U093E", "U092E">>

kwDOB == <<"D", "O", "B">>

kwYear == <<"Y", "e", "a", "r">>

kwBirth == <<"B", "i", "r", "t", "h">>

kwFather == <<"F", "a", "t", "h", "e", "r">>

kwMother == <<"M", "o", "t", "h", "e", "r">>

kwPita == <<"U092A", "U093F", "U0924", "U093E">>

kwMata == <<"U092E", "U093E", "U0924", "U093E">>

kwJanm == <<"U091C", "U0928", "U094D", "U092E">>

kwMale == <<"M", "a", "l", "e">>

kwFemale == <<"F", "e", "m", "a", "l", "e">>

kwPurush == <<"U092A", "U0941", "U0930", "U0941", "U0937">>

kwMahila == <<"U092E", "U0939", "U093F", "U0932", "U093E">>

kwTransgender == <<"T", "r", "a", "n", "s", "g", "e", "n", "d", "e", "r">>

kwKinnar == <<"U0915", "U093F", "U0928", "U094D", "U0928", "U0930">>

\* ------------------------------------------------------------------------
\* validate_aadhaar_number
\* ------------------------------------------------------------------------

\* str.replace(" ", "")
RemoveSpaces(s) == SelectSeq(s, LAMBDA c : c # " ")

\* re.match(r'^\d{12}$', s): without re.MULTILINE, $ is the end of the string
\* or the place before a newline that ends the string.
MatchTwelveDigits(s) == /\ Len(s) >= 12
                        /\ \A i \in 1..12 : IsDigit(s[i])
                        /\ \/ Len(s) = 12
                           \/ Len(s) = 13 /\ s[13] = "\n"

validate_aadhaar_number(aadhaar) ==
    IF ~Truthy(aadhaar) THEN FALSE ELSE MatchTwelveDigits(RemoveSpaces(aadhaar))

\* ------------------------------------------------------------------------
\* patterns["aadhaar"]: \b[2-9]{1}[0-9]{3}\s?[0-9]{4}\s?[0-9]{4}\b
\* A matcher gives the position after the match that starts at p, or 0.
\* ------------------------------------------------------------------------

Digits4At(t, p) == p + 3 <= Len(t) /\ \A i \in 0..3 : IsAsciiDigit(t[p + i])

\* [0-9]{4}\b
AadhaarGroup3(t, p) == IF Digits4At(t, p) /\ Boundary(t, p + 4) THEN p + 4 ELSE 0

\* \s?[0-9]{4}\b, the optional whitespace taken first
AadhaarTail2(t, p) ==
    LET withSpace == IF p <= Len(t) /\ IsSpace(t[p]) THEN AadhaarGroup3(t, p + 1) ELSE 0
    IN  IF withSpace # 0 THEN withSpace ELSE AadhaarGroup3(t, p)

\* [0-9]{4}\s?[0-9]{4}\b
AadhaarGroup2(t, p) == IF Digits4At(t, p) THEN AadhaarTail2(t, p + 4) ELSE 0

\* \s?[0-9]{4}\s?[0-9]{4}\b
AadhaarTail1(t, p) ==
    LET withSpace == IF p <= Len(t) /\ IsSpace(t[p]) THEN AadhaarGroup2(t, p + 1) ELSE 0
    IN  IF withSpace # 0 THEN withSpace ELSE AadhaarGroup2(t, p)

AadhaarMatchAt(t, p) ==
    IF /\ Boundary(t, p)
       /\ p + 3 <= Len(t)
       /\ IsLeadDigit(t[p])
       /\ \A i \in 1..3 : IsAsciiDigit(t[p + i])
    THEN AadhaarTail1(t, p + 4)
    ELSE 0

\* The leftmost match that starts at p or after it; group(0)
RECURSIVE AadhaarFrom(_, _)
AadhaarFrom(t, p) ==
    IF p > Len(t) THEN NoMatch
    ELSE LET e == AadhaarMatchAt(t, p)
         IN  IF e # 0 THEN Found(Slice(t, p, e)) ELSE AadhaarFrom(t, p + 1)

\* re.search
SearchAadhaar(t) == AadhaarFrom(t, 1)

\* lambda x: x.replace(" ", "")
TransformAadhaar(x) == RemoveSpaces(x)

\* ------------------------------------------------------------------------
\* patterns["dob"]: \b(\d{2}[/-]\d{2}[/-]\d{4})\b
\* ------------------------------------------------------------------------

IsDateSep(c) == c \in {"/", "-"}

DobMatchAt(t, p) ==
    IF /\ Boundary(t, p)
       /\ p + 9 <= Len(t)
       /\ IsDigit(t[p]) /\ IsDigit(t[p + 1])
       /\ IsDateSep(t[p + 2])
       /\ IsDigit(t[p + 3]) /\ IsDigit(t[p + 4])
       /\ IsDateSep(t[p + 5])
       /\ \A i \in 6..9 : IsDigit(t[p + i])
       /\ Boundary(t, p + 10)
    THEN p + 10
    ELSE 0

\* The leftmost match that starts at p or after it; group(1)
RECURSIVE DobFrom(_, _)
DobFrom(t, p) ==
    IF p > Len(t) THEN NoMatch
    ELSE LET e == DobMatchAt(t, p)
         IN  IF e # 0 THEN Found(Slice(t, p, e)) ELSE DobFrom(t, p + 1)

\* re.search
SearchDob(t) == DobFrom(t, 1)

\* lambda x: x
TransformDob(x) == x

\* ------------------------------------------------------------------------
\* patterns["gender"]: \b(Male|Female|Transgender|...)\b
\* ------------------------------------------------------------------------

GenderWords == <<kwMale, kwFemale, kwTransgender, kwPurush, kwMahila, kwKinnar>>

\* The alternatives that match at p, in the order of the pattern.
GenderAltsAt(t, p) ==
    {a \in DOMAIN GenderWords :
        LitAt(t, p, GenderWords[a]) /\ Boundary(t, p + Len(GenderWords[a]))}

GenderMatchAt(t, p) ==
    IF ~Boundary(t, p) THEN 0
    ELSE LET alts == GenderAltsAt(t, p)
         IN  IF alts = {} THEN 0 ELSE p + Len(GenderWords[Min(alts)])

\* The leftmost match that starts at p or after it; group(1)
RECURSIVE GenderFrom(_, _)
GenderFrom(t, p) ==
    IF p > Len(t) THEN NoMatch
    ELSE LET e == GenderMatchAt(t, p)
         IN  IF e # 0 THEN Found(Slice(t, p, e)) ELSE GenderFrom(t, p + 1)

\* re.search
SearchGender(t) == GenderFrom(t, 1)

\* lambda x: "Male" if x in ["Male", ...] else "Female" if x in [...] else "Transgender"
\* (str equality: the case of the matched text counts)
TransformGender(x) ==
    IF x \in {kwMale, kwPurush} THEN kwMale
    ELSE IF x \in {kwFemale, kwMahila} THEN kwFemale
    ELSE kwTransgender

\* ------------------------------------------------------------------------
\* patterns["name"]:
\*  (?:Name|naam)\s*[:danda]?\s*([A-Za-z\s]+?)(?=\s*(?:DOB|...)|\n|$)
\* ------------------------------------------------------------------------

NameLabels == <<kwName, kwNaam>>

NameStopWords == {kwDOB, kwYear, kwBirth, kwFather, kwMother, kwPita, kwMata,
                  kwJanm, kwMale, kwFemale, kwPurush, kwMahila}

\* (?=\s*(?:DOB|...)|\n|$) with re.MULTILINE
NameLookahead(t, p) ==
    \/ \E n \in 0..SpaceRun(t, p) : \E kw \in NameStopWords : LitAt(t, p + n, kw)
    \/ p <= Len(t) /\ t[p] = "\n"
    \/ p = Len(t) + 1
    \/ p <= Len(t) /\ t[p] = "\n"

\* The group grown from g to e, one character at a time, until the lookahead
\* accepts: the position after the group, or 0.
RECURSIVE NameGroupGrow(_, _, _)
NameGroupGrow(t, g, e) ==
    IF e > Len(t) + 1 \/ ~IsNameChar(t[e - 1]) THEN 0
    ELSE IF NameLookahead(t, e) THEN e
    ELSE NameGroupGrow(t, g, e + 1)

\* ([A-Za-z\s]+?) then the lookahead: the shortest group that the lookahead
\* accepts.
NameGroupEnd(t, g) == NameGroupGrow(t, g, g + 1)

\* \s*([A-Za-z\s]+?)(?=...) from q, with m whitespace characters or fewer: the
\* longest whitespace first.
RECURSIVE NameGroupAfterSpaces(_, _, _)
NameGroupAfterSpaces(t, q, m) ==
    LET e == NameGroupEnd(t, q + m)
    IN  IF e # 0 THEN Found(Slice(t, q + m, e))
        ELSE IF m = 0 THEN NoMatch
        ELSE NameGroupAfterSpaces(t, q, m - 1)

NameAfterColon(t, q) == NameGroupAfterSpaces(t, q, SpaceRun(t, q))

\* [:danda]?... from p: the separator taken first, then without it.
NameFromColon(t, p) ==
    LET withColon == IF p <= Len(t) /\ t[p] \in {":", Danda}
                     THEN NameAfterColon(t, p + 1) ELSE NoMatch
    IN  IF withColon.found THEN withColon ELSE NameAfterColon(t, p)

\* \s*[:danda]?... from j, with k whitespace characters or fewer: the longest
\* whitespace first.
RECURSIVE NameAfterSpaces(_, _, _)
NameAfterSpaces(t, j, k) ==
    LET m == NameFromColon(t, j + k)
    IN  IF m.found \/ k = 0 THEN m ELSE NameAfterSpaces(t, j, k - 1)

NameAfterLabel(t, j) == NameAfterSpaces(t, j, SpaceRun(t, j))

\* (?:Name|naam) at p and the rest after it, the alternatives from a on in the
\* order of the pattern.
RECURSIVE NameAltsFrom(_, _, _)
NameAltsFrom(t, p, a) ==
    IF a > Len(NameLabels) THEN NoMatch
    ELSE LET m == IF LitAt(t, p, NameLabels[a])
                  THEN NameAfterLabel(t, p + Len(NameLabels[a])) ELSE NoMatch
         IN  IF m.found THEN m ELSE NameAltsFrom(t, p, a + 1)

NameMatchAt(t, p) == NameAltsFrom(t, p, 1)

\* The leftmost match that starts at p or after it; group(1)
RECURSIVE NameFrom(_, _)
NameFrom(t, p) ==
    IF p > Len(t) THEN NoMatch
    ELSE LET m == NameMatchAt(t, p)
         IN  IF m.found THEN m ELSE NameFrom(t, p + 1)

\* re.search
SearchName(t) == NameFrom(t, 1)

\* str.strip()
RECURSIVE LStrip(_)
LStrip(s) == IF s # <<>> /\ IsSpace(Head(s)) THEN LStrip(Tail(s)) ELSE s

RECURSIVE RStrip(_)
RStrip(s) == IF s # <<>> /\ IsSpace(s[Len(s)]) THEN RStrip(SubSeq(s, 1, Len(s) - 1)) ELSE s

Strip(s) == RStrip(LStrip(s))

\* lambda x: x.strip()
TransformName(x) == Strip(x)

\* ------------------------------------------------------------------------
\* extract_aadhaar_info.  A dict is the sequence of its <<key, value>> items
\* in insertion order.
\* ------------------------------------------------------------------------

DictKeys(d) == [i \in DOMAIN d |-> d[i][1]]

DictValues(d) == [i \in DOMAIN d |-> d[i][2]]

HasKey(d, k) == \E i \in DOMAIN d : d[i][1] = k

\* d.get(k): None for a key that is missing
DictGet(d, k) == IF HasKey(d, k) THEN d[CHOOSE i \in DOMAIN d : d[i][1] = k][2] ELSE None

\* d[k] = v: in place for a key that exists, a new last item otherwise
DictSet(d, k, v) ==
    IF HasKey(d, k)
    THEN [i \in DOMAIN d |-> IF d[i][1] = k THEN <<k, v>> ELSE d[i]]
    ELSE Append(d, <<k, v>>)

EmptyInfo == << <<"aadhaar_number", None>>, <<"name", None>>,
                <<"dob", None>>, <<"gender", None>> >>

\* The keys of the patterns dict, in its order.
PatternKeys == <<"aadhaar", "name", "dob", "gender">>

SearchPattern(key, t) ==
    CASE key = "aadhaar" -> SearchAadhaar(t)
      [] key = "name" -> SearchName(t)
      [] key = "dob" -> SearchDob(t)
      [] key = "gender" -> SearchGender(t)

Transform(key, x) ==
    CASE key = "aadhaar" -> TransformAadhaar(x)
      [] key = "name" -> TransformName(x)
      [] key = "dob" -> TransformDob(x)
      [] key = "gender" -> TransformGender(x)

\* The loop over patterns.items(): aadhaar_info[key] = transform(value)
RECURSIVE ApplyPatterns(_, _, _)
ApplyPatterns(info, t, i) ==
    IF i > Len(PatternKeys) THEN info
    ELSE LET key == PatternKeys[i]
             m == SearchPattern(key, t)
         IN  ApplyPatterns(IF m.found THEN DictSet(info, key, Transform(key, m.value))
                           ELSE info,
                           t, i + 1)

\* The validation that follows the loop.
ValidateInfo(info) ==
    IF /\ Truthy(DictGet(info, "aadhaar_number"))
       /\ ~validate_aadhaar_number(DictGet(info, "aadhaar_number"))
    THEN DictSet(info, "aadhaar_number", None)
    ELSE info

extract_aadhaar_info(t) == ValidateInfo(ApplyPatterns(EmptyInfo, t, 1))

\* ------------------------------------------------------------------------
\* Texts: the OCR engine is a black box, its output any text.  The texts
\* explored are the example of the specification and the concatenations of
\* at most MaxSegs fragments of card text.
\* ------------------------------------------------------------------------

ExampleText == <<"N", "a", "m", "e", ":", " ", "A", "s", "h", "a", " ", "K", "u", "m",
    "a", "r", "\n", "D", "O", "B", ":", " ", "0", "1", "/", "0", "1", "/", "1", "9",
    "9", "0", "\n", "G", "e", "n", "d", "e", "r", ":", " ", "F", "e", "m", "a", "l",
    "e", "\n", "9", "8", "7", "6", " ", "5", "4", "3", "2", " ", "1", "0", "9", "8">>

txNameLabel == <<"N", "a", "m", "e", ":", " ">>

txNameColon == <<"N", "a", "m", "e", ":">>

txNaam == <<"U0928", "U093E", "U092E">>

txAshaKumar == <<"A", "s", "h", "a", " ", "K", "u", "m", "a", "r">>

txDateSlash == <<"0", "1", "/", "0", "1", "/", "1", "9", "9", "0">>

txDateDash == <<"0", "2", "-", "0", "3", "-", "1", "9", "9", "1">>

txDateMixed == <<"0", "1", "/", "0", "2", "-", "1", "9", "9", "0">>

txFemale == <<"F", "e", "m", "a", "l", "e">>

txMaleUpper == <<"M", "A", "L", "E">>

txFemaleLower == <<"f", "e", "m", "a", "l", "e">>

txMahila == <<"U092E", "U0939", "U093F", "U0932", "U093E">>

txPurush == <<"U092A", "U0941", "U0930", "U0941", "U0937">>

txIdSpaced == <<"9", "8", "7", "6", " ", "5", "4", "3", "2", " ", "1", "0", "9", "8">>

txIdTabbed == <<"9", "8", "7", "6", "\t", "5", "4", "3", "2", "\n", "1", "0", "9", "8">>

txIdLeadOne == <<"1", "2", "3", "4", " ", "5", "6", "7", "8", " ", "9", "0", "1", "2">>

txDigits4 == <<"9", "8", "7", "6">>

txDigits8 == <<"5", "4", "3", "2", "1", "0", "9", "8">>

txLetter == <<"x">>

Lexicon == {txNameLabel, txNameColon, txNaam, txAshaKumar, txDateSlash, txDateDash,
            txDateMixed, txFemale, txMaleUpper, txFemaleLower, txMahila, txPurush,
            txIdSpaced, txIdTabbed, txIdLeadOne, txDigits4, txDigits8, txLetter,
            <<" ">>, <<"\n">>}

MaxSegs == 3

RECURSIVE Concats(_, _)
Concats(pieces, n) ==
    IF n = 0 THEN {<<>>}
    ELSE LET shorter == Concats(pieces, n - 1)
         IN  shorter \cup {s \o p : s \in shorter, p \in pieces}

Texts == Concats(Lexicon, MaxSegs) \cup {ExampleText}

\* The texts the OCR step of the service returns.
OcrOutputs == {<<>>, <<" ", "\n">>, ExampleText, txIdSpaced, txIdLeadOne,
               txNameLabel \o txAshaKumar, txNameColon \o <<"\n">>, txMaleUpper}

\* The arguments of validate_aadhaar_number.
ValidatorPieces == {txDigits4, <<"5", "4", "3", "2">>, <<"1", "0", "9", "8">>,
                    <<"1", "2", "3", "4">>, <<"0", "1", "2", "3">>,
                    <<"U096F", "U0968", "U0967", "U0966">>,
                    <<" ">>, <<"\n">>, <<"\t">>, <<"x">>}

MaxPieces == 5

ValidatorInputs == Concats(ValidatorPieces, MaxPieces) \cup {None}

\* ------------------------------------------------------------------------
\* The service and its client
\* ------------------------------------------------------------------------

\* max_size in extract_aadhaar_data, MAX_FILE_SIZE in the client
max_size == 5 * 1024 * 1024

MAX_FILE_SIZE == 5 * 1024 * 1024

allowed_types == {"image/jpeg", "image/png", "image/jpg"}

\* The uploads tried: sizes at and over the limit, declared types in and out of
\* the allowed set.
FileSizes == {max_size, max_size + 1}

ContentTypes == {"image/jpeg", "image/png", "image/jpg", "image/gif"}

\* The stages of extract_aadhaar_data in the order of its statements.
StageOrder == <<"size", "type", "decode", "preprocess", "ocr", "text", "extract",
                "validate", "success">>

NoResp == [status |-> 0, success |-> FALSE, detail |-> "", data |-> <<>>]

\* raise HTTPException(status_code=400, detail=...)
HttpError(detail) == [status |-> 400, success |-> FALSE, detail |-> detail, data |-> <<>>]

\* The except branch: JSONResponse(success False, detail str(e)), status 500
Failure(detail) == [status |-> 500, success |-> FALSE, detail |-> detail, data |-> <<>>]

\* JSONResponse(success True, data extracted_data), status 200
Success(d) == [status |-> 200, success |-> TRUE,
               detail |-> "Information extracted successfully", data |-> d]

\* any(extracted_data.values())
AnyValue(d) == \E v \in Range(DictValues(d)) : Truthy(v)

\* The names bound in the module fastapi_app when a handler runs: its imports
\* and its top-level definitions.
ModuleNames == {"FastAPI", "File", "UploadFile", "HTTPException", "CORSMiddleware",
                "JSONResponse", "StaticFiles", "HTMLResponse", "pytesseract", "Image",
                "re", "io", "json", "logging", "Dict", "Any", "Path", "cv2", "np",
                "logger", "app", "preprocess_image", "validate_aadhaar_number",
                "extract_aadhaar_info", "root", "extract_aadhaar_data", "health_check"}

\* No response of /health yet.
NoHealth == [status |-> 0, body |-> "", available |-> FALSE, error |-> ""]

\* {"status": "healthy", "timestamp": ..., "tesseract_available": True}
Healthy == [status |-> 200, body |-> "healthy", available |-> TRUE, error |-> ""]

\* JSONResponse({"status": "unhealthy", "error": str(e)}, status_code=500)
Unhealthy(e) == [status |-> 500, body |-> "unhealthy", available |-> FALSE, error |-> e]

\* health_check: the version check, then the dict with datetime.now(); any
\* exception of either gives the unhealthy response.
health_check(engineAvailable) ==
    IF ~engineAvailable THEN Unhealthy("tesseract is not installed")
    ELSE IF "datetime" \notin ModuleNames THEN Unhealthy("name 'datetime' is not defined")
    ELSE Healthy

\* validate_file of the client
validate_file(size, ctype) ==
    IF size > MAX_FILE_SIZE THEN FALSE
    ELSE IF ctype \notin {"image/jpeg", "image/png", "image/jpg"} THEN FALSE
    ELSE TRUE

\* display_extraction_results: data.get(key, "Not found") for the four keys
NotFound == <<"Not found">>

DataGet(d, k, default) == IF HasKey(d, k) THEN DictGet(d, k) ELSE default

display_extraction_results(d) ==
    [aadhaar_number |-> DataGet(d, "aadhaar_number", NotFound),
     name |-> DataGet(d, "name", NotFound),
     dob |-> DataGet(d, "dob", NotFound),
     gender |-> DataGet(d, "gender", NotFound)]

\* A cell of the CSV file: pandas writes None as the empty field.
Cell(v) == IF v = None THEN <<>> ELSE v

HeaderLine(d) == [header |-> TRUE, cells |-> DictKeys(d)]

DataLine(d) == [header |-> FALSE, cells |-> [i \in DOMAIN d |-> Cell(d[i][2])]]

\* save_to_csv: the file is the sequence of its lines, absent when empty.
save_to_csv(file, d) ==
    IF file # <<>> THEN Append(file, DataLine(d))
    ELSE <<HeaderLine(d), DataLine(d)>>

\* The saves explored.
MaxSaves == 2

VARIABLES
    pc,         \* the statement extract_aadhaar_data is at, "idle" between calls
    upload,     \* the UploadFile of the call: size, declared type, sender
    stages,     \* the stages the call has run
    ocrCalls,   \* calls of pytesseract.image_to_string in the call
    text,       \* the OCR text of the call
    data,       \* extracted_data of the call
    resp,       \* the response of the call
    csv,        \* aadhaar_data.csv
    health,     \* the last response of /health
    engine,     \* whether get_tesseract_version() returned in that call
    xText,      \* a direct call of extract_aadhaar_info: argument,
    xRecord,    \*   result,
    xShown,     \*   and what the client displays of it
    xPhase,
    vInput,     \* a direct call of validate_aadhaar_number: argument,
    vResult,    \*   result
    vPhase

vars == <<pc, upload, stages, ocrCalls, text, data, resp, csv, health, engine,
          xText, xRecord, xShown, xPhase, vInput, vResult, vPhase>>

serviceVars == <<pc, upload, stages, ocrCalls, text, data, resp, csv, health, engine>>

extractVars == <<xText, xRecord, xShown, xPhase>>

validateVars == <<vInput, vResult, vPhase>>

NoUpload == [size |-> 0, ctype |-> "none", ui |-> FALSE]

NoShown == [aadhaar_number |-> None, name |-> None, dob |-> None, gender |-> None]

ServiceInit ==
    /\ pc = "idle"
    /\ upload = NoUpload
    /\ stages = <<>>
    /\ ocrCalls = 0
    /\ text = <<>>
    /\ data = <<>>
    /\ resp = NoResp
    /\ csv = <<>>
    /\ health = NoHealth
    /\ engine = FALSE

ExtractIdle == xText = <<>> /\ xRecord = <<>> /\ xShown = NoShown /\ xPhase = "unused"

ValidateIdle == vInput = <<>> /\ vResult = FALSE /\ vPhase = "unused"

Init == ServiceInit /\ ExtractIdle /\ ValidateIdle

SavedRows == Len(SelectSeq(csv, LAMBDA l : ~l.header))

\* A client posts a file to /extract-aadhaar-info/; file.read() is done.
StartCall(size, ctype, ui) ==
    /\ pc = "idle"
    /\ pc' = "size"
    /\ upload' = [size |-> size, ctype |-> ctype, ui |-> ui]
    /\ stages' = <<>>
    /\ ocrCalls' = 0
    /\ text' = <<>>
    /\ data' = <<>>
    /\ resp' = NoResp
    /\ UNCHANGED <<csv, health, engine, extractVars, validateVars>>

\* Any HTTP client.
ApiUpload == \E size \in FileSizes, ctype \in ContentTypes : StartCall(size, ctype, FALSE)

\* main of the client: the request is sent only for a file validate_file
\* accepts; otherwise main shows the error and returns.
UiUpload ==
    /\ SavedRows < MaxSaves
    /\ \E size \in FileSizes, ctype \in ContentTypes :
          IF validate_file(size, ctype) THEN StartCall(size, ctype, TRUE)
          ELSE pc = "idle" /\ UNCHANGED vars

Respond(r) == resp' = r /\ pc' = "responded"

Ran(stage) == stages' = Append(stages, stage)

\* if file_size > max_size: raise HTTPException
CheckSize ==
    /\ pc = "size"
    /\ Ran("size")
    /\ IF upload.size > max_size
       THEN Respond(HttpError("File size too large (max 5MB)"))
       ELSE pc' = "type" /\ UNCHANGED resp
    /\ UNCHANGED <<upload, ocrCalls, text, data, csv, health, engine, extractVars, validateVars>>

\* The type check that lets every declared type through.
CheckType_Accepting ==
    /\ pc = "type"
    /\ Ran("type")
    /\ pc' = "decode"
    /\ UNCHANGED resp
    /\ UNCHANGED <<upload, ocrCalls, text, data, csv, health, engine, extractVars, validateVars>>

\* if file.content_type not in allowed_types: raise HTTPException
CheckType ==
    /\ pc = "type"
    /\ Ran("type")
    /\ IF upload.ctype \notin allowed_types
       THEN Respond(HttpError("Invalid file type. Only JPEG and PNG are allowed"))
       ELSE pc' = "decode" /\ UNCHANGED resp
    /\ UNCHANGED <<upload, ocrCalls, text, data, csv, health, engine, extractVars, validateVars>>

\* Image.open(io.BytesIO(content)): raises on bytes that are no image
OpenImage ==
    /\ pc = "decode"
    /\ Ran("decode")
    /\ \E ok \in BOOLEAN :
          IF ok THEN pc' = "preprocess" /\ UNCHANGED resp
          ELSE Respond(Failure("cannot identify image file"))
    /\ UNCHANGED <<upload, ocrCalls, text, data, csv, health, engine, extractVars, validateVars>>

\* preprocess_image: any exception becomes ValueError("Failed to preprocess image")
PreprocessImage ==
    /\ pc = "preprocess"
    /\ Ran("preprocess")
    /\ \E ok \in BOOLEAN :
          IF ok THEN pc' = "ocr" /\ UNCHANGED resp
          ELSE Respond(Failure("Failed to preprocess image"))
    /\ UNCHANGED <<upload, ocrCalls, text, data, csv, health, engine, extractVars, validateVars>>

\* pytesseract.image_to_string: some text, or an exception of the engine
PerformOcr ==
    /\ pc = "ocr"
    /\ Ran("ocr")
    /\ ocrCalls' = ocrCalls + 1
    /\ \/ \E t \in OcrOutputs : text' = t /\ pc' = "text" /\ UNCHANGED resp
       \/ Respond(Failure("tesseract is not installed")) /\ UNCHANGED text
    /\ UNCHANGED <<upload, data, csv, health, engine, extractVars, validateVars>>

\* if not text.strip(): raise ValueError("No text detected in image")
CheckText ==
    /\ pc = "text"
    /\ Ran("text")
    /\ IF Strip(text) = <<>>
       THEN Respond(Failure("No text detected in image"))
       ELSE pc' = "extract" /\ UNCHANGED resp
    /\ UNCHANGED <<upload, ocrCalls, text, data, csv, health, engine, extractVars, validateVars>>

\* extracted_data = extract_aadhaar_info(text): the patterns, then the validation
ExtractInfo ==
    /\ pc = "extract"
    /\ stages' = stages \o <<"extract", "validate">>
    /\ data' = extract_aadhaar_info(text)
    /\ pc' = "success"
    /\ UNCHANGED <<upload, ocrCalls, text, resp, csv, health, engine, extractVars, validateVars>>

\* if not any(extracted_data.values()): raise ValueError; else the 200 response
CheckSuccess ==
    /\ pc = "success"
    /\ Ran("success")
    /\ IF ~AnyValue(data)
       THEN Respond(Failure("No valid information could be extracted"))
       ELSE Respond(Success(data))
    /\ UNCHANGED <<upload, ocrCalls, text, data, csv, health, engine, extractVars, validateVars>>

\* The response reaches the client and the call's locals are gone.  main of the
\* Streamlit client saves the data of a 200 response with success true; to_csv
\* may fail (save_to_csv then returns False and the file is taken to be
\* unchanged).
Deliver ==
    /\ pc = "responded"
    /\ pc' = "idle"
    /\ IF upload.ui /\ resp.status = 200 /\ resp.success
       THEN \E written \in BOOLEAN :
               csv' = IF written THEN save_to_csv(csv, resp.data) ELSE csv
       ELSE UNCHANGED csv
    /\ upload' = NoUpload
    /\ stages' = <<>>
    /\ ocrCalls' = 0
    /\ text' = <<>>
    /\ data' = <<>>
    /\ resp' = NoResp
    /\ UNCHANGED <<health, engine, extractVars, validateVars>>

\* GET /health, with the OCR engine installed or not.  The handlers are
\* coroutines of one event loop and extract_aadhaar_data does not await after
\* file.read(), so /health runs between calls.
HealthCheck ==
    /\ pc = "idle"
    /\ \E engineAvailable \in BOOLEAN :
          health' = health_check(engineAvailable) /\ engine' = engineAvailable
    /\ UNCHANGED <<pc, upload, stages, ocrCalls, text, data, resp, csv,
                   extractVars, validateVars>>

Next ==
    \/ ApiUpload
    \/ UiUpload
    \/ CheckSize
    \/ CheckType
    \/ OpenImage
    \/ PreprocessImage
    \/ PerformOcr
    \/ CheckText
    \/ ExtractInfo
    \/ CheckSuccess
    \/ Deliver
    \/ HealthCheck

Spec == Init /\ [][Next]_vars

\* ------------------------------------------------------------------------
\* extract_aadhaar_info called on a text, and the client's display of the result
\* ------------------------------------------------------------------------

InitExtract ==
    /\ ServiceInit
    /\ ValidateIdle
    /\ xText \in Texts
    /\ xRecord = <<>>
    /\ xShown = NoShown
    /\ xPhase = "called"

RunExtract ==
    /\ xPhase = "called"
    /\ xRecord' = extract_aadhaar_info(xText)
    /\ xPhase' = "returned"
    /\ UNCHANGED <<xText, xShown, serviceVars, validateVars>>

ShowResult ==
    /\ xPhase = "returned"
    /\ xShown' = display_extraction_results(xRecord)
    /\ xPhase' = "shown"
    /\ UNCHANGED <<xText, xRecord, serviceVars, validateVars>>

NextExtract == RunExtract \/ ShowResult

SpecExtract == InitExtract /\ [][NextExtract]_vars

\* ------------------------------------------------------------------------
\* validate_aadhaar_number called on a string
\* ------------------------------------------------------------------------

InitValidate ==
    /\ ServiceInit
    /\ ExtractIdle
    /\ vInput \in ValidatorInputs
    /\ vResult = FALSE
    /\ vPhase = "called"

RunValidate ==
    /\ vPhase = "called"
    /\ vResult' = validate_aadhaar_number(vInput)
    /\ vPhase' = "returned"
    /\ UNCHANGED <<vInput, serviceVars, extractVars>>

NextValidate == RunValidate

SpecValidate == InitValidate /\ [][NextValidate]_vars
\* ------------------------------------------------------------------------
\* The claims
\* ------------------------------------------------------------------------

FieldKeys == {"aadhaar_number", "name", "dob", "gender"}

Id12 == <<"9", "8", "7", "6", "5", "4", "3", "2", "1", "0", "9", "8">>

\* C1: for the text "Name: Asha Kumar\nDOB: 01/01/1990\nGender: Female\n
\* 9876 5432 1098", extract_aadhaar_info returns a record whose aadhaar_number,
\* the key the client displays, is "987654321098", whose name is "Asha Kumar",
\* whose dob is "01/01/1990" and whose gender is "Female".
C1_ExampleRecord ==
    xPhase = "shown" /\ xText = ExampleText =>
        /\ DictGet(xRecord, "aadhaar_number") = Id12
        /\ xShown.aadhaar_number = Id12
        /\ DictGet(xRecord, "name") = txAshaKumar
        /\ DictGet(xRecord, "dob") = txDateSlash
        /\ DictGet(xRecord, "gender") = kwFemale

\* The items of a record that carry the ID number.
IdKeys == {"aadhaar_number", "aadhaar"}

WellFormedId(v) ==
    /\ Len(v) = 12
    /\ \A i \in 1..12 : v[i] \in AsciiDigits
    /\ v[1] \in LeadDigits

\* C2: an ID-number value present in the record returned by
\* extract_aadhaar_info is exactly 12 decimal digits with a first digit in 2-9
\* and no whitespace or separator, and it passes the validator.
C2_IdWellFormed ==
    xPhase # "called" =>
        \A i \in DOMAIN xRecord :
            xRecord[i][1] \in IdKeys /\ xRecord[i][2] # None =>
                WellFormedId(xRecord[i][2]) /\ validate_aadhaar_number(xRecord[i][2])

\* The digits 2-9, in either script of the texts.
ClaimLeadDigits == LeadDigits \cup {"U0968", "U096F"}

ClaimValidId(s) ==
    /\ s # None
    /\ LET d == RemoveSpaces(s)
       IN  Len(d) = 12 /\ (\A i \in 1..12 : IsDigit(d[i])) /\ d[1] \in ClaimLeadDigits

\* C3: validate_aadhaar_number returns true exactly for the strings that, with
\* their spaces removed, are 12 decimal digits with a first digit in 2-9.
C3_ValidatorExact ==
    vPhase = "returned" => (vResult <=> ClaimValidId(vInput))

AllFieldsAbsent(d) == \A k \in FieldKeys : DictGet(d, k) = None

\* C4: a success response carries at least one of the four fields; non-blank
\* OCR text with all four fields absent ends in the no-fields failure, blank
\* OCR text in the no-text failure.
C4_SuccessNeedsField ==
    pc = "responded" /\ ocrCalls = 1 /\ "text" \in Range(stages) =>
        /\ resp.success => ~AllFieldsAbsent(resp.data)
        /\ Strip(text) = <<>> => resp = Failure("No text detected in image")
        /\ Strip(text) # <<>> /\ AllFieldsAbsent(extract_aadhaar_info(text)) =>
               resp = Failure("No valid information could be extracted")

IsPrefix(s, t) == Len(s) <= Len(t) /\ \A i \in DOMAIN s : s[i] = t[i]

C5_State ==
    /\ IsPrefix(stages, StageOrder)
    /\ ocrCalls <= 1
    /\ ocrCalls = Len(SelectSeq(stages, LAMBDA g : g = "ocr"))
    /\ resp.status \in {400, 500} => pc = "responded"
    /\ upload.size > max_size /\ pc # "size" =>
           /\ pc = "responded"
           /\ resp = HttpError("File size too large (max 5MB)")
           /\ stages = <<"size">>
           /\ ocrCalls = 0
    /\ upload.size <= max_size /\ upload.ctype \notin {"image/jpeg", "image/png", "image/jpg"}
         /\ pc \notin {"idle", "size", "type"} =>
           /\ pc = "responded"
           /\ resp = HttpError("Invalid file type. Only JPEG and PNG are allowed")
           /\ stages = <<"size", "type">>
           /\ ocrCalls = 0

C5_Step ==
    resp.status \in {400, 500} => stages' = <<>> /\ ocrCalls' = 0 /\ pc' = "idle"

\* C5: the stages of a call run in the order size, type, decode, preprocess,
\* OCR, text, extract, validate, success; an oversize payload or a type that is
\* not allowed is rejected with no decoding, preprocessing or OCR, the size
\* check first; OCR runs at most once per call; once a stage has failed no
\* further stage of the call runs.
C5_StageOrder == []C5_State /\ [][C5_Step]_vars

\* A payload that fails both checks has been reported as oversize.
C5_Witness ==
    /\ pc = "responded"
    /\ upload.size > max_size
    /\ upload.ctype = "image/gif"
    /\ resp = HttpError("File size too large (max 5MB)")

FoldAll(s) == [i \in DOMAIN s |-> Fold(s[i])]

\* The canonical value of a gender token, whatever its case.
Canonical(token) ==
    IF FoldAll(token) \in {FoldAll(kwMale), kwPurush} THEN kwMale
    ELSE IF FoldAll(token) \in {FoldAll(kwFemale), kwMahila} THEN kwFemale
    ELSE kwTransgender

\* C6: the gender of the record is the canonical value of the token the gender
\* pattern matched in the text, whatever the case of the token.
C6_GenderCanonical ==
    xPhase # "called" /\ SearchGender(xText).found =>
        DictGet(xRecord, "gender") = Canonical(SearchGender(xText).value)

\* DD<sep>MM<sep>YYYY at p, as a token.
DateTokenAt(t, p, sep) ==
    /\ p >= 1 /\ p + 9 <= Len(t)
    /\ \A i \in {0, 1, 3, 4, 6, 7, 8, 9} : IsDigit(t[p + i])
    /\ t[p + 2] = sep /\ t[p + 5] = sep
    /\ Boundary(t, p) /\ Boundary(t, p + 10)

DateTokens(t) == {p \in 1..Len(t) : DateTokenAt(t, p, "/") \/ DateTokenAt(t, p, "-")}

\* C7: a dob present in the record is of the form DD/MM/YYYY or DD-MM-YYYY and
\* is the first such token of the text.
C7_DobForm ==
    xPhase # "called" /\ DictGet(xRecord, "dob") # None =>
        /\ DateTokens(xText) # {}
        /\ DictGet(xRecord, "dob") =
               Slice(xText, Min(DateTokens(xText)), Min(DateTokens(xText)) + 10)

\* C8: a name present in the record is a non-empty string of Latin letters and
\* spaces.
C8_NameNonEmpty ==
    xPhase # "called" /\ DictGet(xRecord, "name") # None =>
        /\ DictGet(xRecord, "name") # <<>>
        /\ \A c \in Range(DictGet(xRecord, "name")) : c \in UpperSet \cup LowerSet \cup {" "}

\* C9: the CSV file is one header line, written by the first save, followed by
\* data lines that have the columns of the header.
C9_CsvShape ==
    csv # <<>> =>
        /\ csv[1].header
        /\ \A i \in 2..Len(csv) :
               ~csv[i].header /\ Len(csv[i].cells) = Len(csv[1].cells)

\* C10: with the OCR engine available, health_check returns the healthy
\* response; the unhealthy response only when the version check raises.
C10_HealthyWhenAvailable ==
    health # NoHealth => (IF engine THEN health = Healthy ELSE health.status = 500)
====
